---------------------------- MODULE Spec2Model ----------------------------
(***************************************************************************)
(* Model of the transaction signing / validation code of Go-blockchain:    *)
(*   database.AccountID, database.Tx, database.SignedTx                    *)
(*   signature.Sign, VerifySignature, FromAddress, ToSignatureBytes,       *)
(*   stamp, toSignatureValues.                                             *)
(*                                                                         *)
(* Strings and byte slices are sequences of byte values (ASCII codes).     *)
(* A *big.Int is a record [isNil, n]; a Go panic is an explicit outcome.   *)
(*                                                                         *)
(* The library the code calls (go-ethereum crypto: secp256k1, Keccak256)   *)
(* is modelled by ECDSA over a cyclic group of prime order CurveN whose    *)
(* points are written by their discrete logarithm, and by a polynomial     *)
(* hash into the scalars.  Widths beyond TLC's integers are scaled:        *)
(* the 32-byte signature fields are FieldLen bytes, the 64-bit word of     *)
(* big.Int.Uint64 is WordBits bits.                                        *)
(***************************************************************************)
EXTENDS Integers, Sequences, FiniteSets, TLC

\* ----------------------------------------------------------------- bounds
\* largest nonce NewTx is called with
MaxNonce == 1
\* largest tip NewTx is called with
MaxTip == 1
\* bytes of one signature field (32 in the code)
FieldLen == 2
\* bits of the machine word big.Int.Uint64 truncates to (64 in the code)
WordBits == 20

\* ------------------------------------------------------ program constants
jessercID == 29
addressLength == 20
\* values of one Go byte
ByteMod == 256
\* order of the signature group (secp256k1N in the library), a prime
CurveN == 32749

RECURSIVE Pow2(_)
Pow2(n) == IF n = 0 THEN 1 ELSE 2 * Pow2(n - 1)

RECURSIVE PowByte(_)
PowByte(n) == IF n = 0 THEN 1 ELSE ByteMod * PowByte(n - 1)

WordMod == Pow2(WordBits)
halfN == CurveN \div 2
\* crypto.SignatureLength (65) and crypto.RecoveryIDOffset (64), scaled
SignatureLength == 2 * FieldLen + 1
RecoveryIDOffset == 2 * FieldLen

NoError == "nil"
Panic == "panic"

RECURSIVE Rep(_, _)
Rep(c, n) == IF n <= 0 THEN <<>> ELSE <<c>> \o Rep(c, n - 1)

\* ------------------------------------------------------------- AccountID
has0xPrefix(a) ==
    Len(a) >= 2 /\ a[1] = 48 /\ (a[2] = 120 \/ a[2] = 88)

isHexCharacter(c) ==
    \/ (48 <= c /\ c <= 57)
    \/ (97 <= c /\ c <= 102)
    \/ (65 <= c /\ c <= 70)

isHex(a) ==
    IF Len(a) % 2 # 0
    THEN FALSE
    ELSE \A i \in 1..Len(a) : isHexCharacter(a[i])

\* isAccountID without its length test
isAccountID_anyLength(a) ==
    LET b == IF has0xPrefix(a) THEN SubSeq(a, 3, Len(a)) ELSE a
    IN  isHex(b)

isAccountID(a) ==
    LET b == IF has0xPrefix(a) THEN SubSeq(a, 3, Len(a)) ELSE a
    IN  Len(b) = 2 * addressLength /\ isHex(b)

ToAccountID(hex) ==
    IF ~isAccountID(hex)
    THEN [id |-> <<>>, err |-> "invalid account format"]
    ELSE [id |-> hex, err |-> NoError]

\* --------------------------------------------------------------- big.Int
NilInt == [isNil |-> TRUE, n |-> 0]
Big(n) == [isNil |-> FALSE, n |-> n]

Abs(n) == IF n < 0 THEN 0 - n ELSE n

\* (*big.Int).Uint64: the low word of the absolute value, the sign ignored
Uint64(x) == Abs(x.n) % WordMod

\* uint64 subtraction, wrapping
SubWord(a, b) == (a - b + WordMod) % WordMod

\* (*big.Int).SetBytes: big-endian unsigned
RECURSIVE BytesToInt(_, _)
BytesToInt(b, i) ==
    IF i = 0 THEN 0 ELSE BytesToInt(b, i - 1) * ByteMod + b[i]

SetBytes(b) == Big(BytesToInt(b, Len(b)))

\* (*big.Int).FillBytes: the absolute value, zero-extended big-endian;
\* panics on a nil receiver and when the value does not fit the buffer
RECURSIVE IntToBytes(_, _)
IntToBytes(n, len) ==
    IF len = 0 THEN <<>>
    ELSE IntToBytes(n \div ByteMod, len - 1) \o <<n % ByteMod>>

FillBytes(x, len) ==
    IF x.isNil \/ Abs(x.n) >= PowByte(len)
    THEN [panic |-> TRUE, bytes |-> <<>>]
    ELSE [panic |-> FALSE, bytes |-> IntToBytes(Abs(x.n), len)]

\* ------------------------------------------------- signature group (library)
\* Points of the group are written by their discrete logarithm to the
\* generator: the point k*G is the scalar k, the identity is 0.
MulN(a, b) == (a * b) % CurveN

RECURSIVE PowN(_, _)
PowN(a, e) ==
    IF e = 0 THEN 1
    ELSE IF e % 2 = 0 THEN PowN(MulN(a, a), e \div 2)
    ELSE MulN(a, PowN(MulN(a, a), e \div 2))

InvN(a) == PowN(a % CurveN, CurveN - 2)

\* x coordinate of a point: a point and its negation share it
XCoord(k) == IF k <= halfN THEN k ELSE CurveN - k
\* parity of the y coordinate of a point
YOdd(k) == IF k <= halfN THEN 0 ELSE 1
\* the point with x coordinate x and y parity bit, 0 when x is on no point
LiftX(x, bit) ==
    IF x < 1 \/ x > halfN THEN 0
    ELSE IF bit = 0 THEN x ELSE CurveN - x

\* crypto.Keccak256 over the concatenation of its arguments: a polynomial
\* hash into the scalars; records that differ in one field hash apart
\* sum of (b[i] + 1) * 131^(hi - i) over lo..hi, and 131^(hi - lo + 1)
RECURSIVE KeccakFold(_, _, _)
KeccakFold(b, lo, hi) ==
    IF lo > hi THEN [h |-> 0, p |-> 1]
    ELSE IF lo = hi THEN [h |-> b[lo] + 1, p |-> 131]
    ELSE LET mid == (lo + hi) \div 2
             left == KeccakFold(b, lo, mid)
             right == KeccakFold(b, mid + 1, hi)
         IN  [h |-> (MulN(left.h, right.p) + right.h) % CurveN,
              p |-> MulN(left.p, right.p)]

Keccak256(b) ==
    LET f == KeccakFold(b, 1, Len(b))
    IN  (MulN(7, f.p) + f.h) % CurveN

\* the deterministic nonce of the signer (RFC 6979 in the library)
NonceFor(d, z, try) == ((d * 211 + z * 17 + try * 5003) % (CurveN - 1)) + 1

\* secp256k1 signing: r = x(kG), s = (z + r d)/k normalised to the low half,
\* the recovery id the y parity of kG, flipped when s is negated
RECURSIVE SignAttempt(_, _, _)
SignAttempt(z, d, try) ==
    LET k == NonceFor(d, z, try)
        r == XCoord(k)
        s0 == MulN(InvN(k), (z + r * d) % CurveN)
        s == IF s0 > halfN THEN CurveN - s0 ELSE s0
        recid == IF s0 > halfN THEN 1 - YOdd(k) ELSE YOdd(k)
    IN  IF s0 = 0
        THEN SignAttempt(z, d, try + 1)
        ELSE IntToBytes(r, FieldLen) \o IntToBytes(s, FieldLen) \o <<recid>>

\* crypto.Sign(digest, key)
cryptoSign(z, d) ==
    IF d < 1 \/ d >= CurveN
    THEN [sig |-> <<>>, err |-> "invalid private key"]
    ELSE [sig |-> SignAttempt(z, d, 0), err |-> NoError]

\* crypto.VerifySignature(pubkey, digest, rs): ECDSA verification of the
\* 64-byte [R || S], which also requires s in the low half
cryptoVerifySignature(Q, z, rs) ==
    LET r == BytesToInt(SubSeq(rs, 1, FieldLen), FieldLen)
        s == BytesToInt(SubSeq(rs, FieldLen + 1, 2 * FieldLen), FieldLen)
        w == InvN(s)
        pt == (MulN(z, w) + MulN(MulN(r, w), Q)) % CurveN
    IN  /\ Len(rs) = 2 * FieldLen
        /\ r >= 1 /\ r < CurveN /\ s >= 1 /\ s <= halfN
        /\ pt # 0
        /\ XCoord(pt) = r

\* crypto.SigToPub(digest, sig): public key recovery Q = (s R - z G)/r
SigToPub(z, sig) ==
    LET r == BytesToInt(SubSeq(sig, 1, FieldLen), FieldLen)
        s == BytesToInt(SubSeq(sig, FieldLen + 1, 2 * FieldLen), FieldLen)
        recid == sig[RecoveryIDOffset + 1]
        R == LiftX(r, recid % 2)
        Q == MulN(InvN(r), (MulN(s, R) + CurveN - z) % CurveN)
    IN  IF Len(sig) # SignatureLength \/ recid >= 4
        THEN [pub |-> 0, err |-> "invalid signature recovery id"]
        ELSE IF r < 1 \/ r >= CurveN \/ s < 1 \/ s >= CurveN
                \/ recid >= 2 \/ R = 0 \/ Q = 0
        THEN [pub |-> 0, err |-> "recovery failed"]
        ELSE [pub |-> Q, err |-> NoError]

\* crypto.ValidateSignatureValues(v, r, s, homestead); a nil r or s panics
ValidateSignatureValues(v, r, s, homestead) ==
    IF r.isNil \/ s.isNil THEN Panic
    ELSE IF r.n < 1 \/ s.n < 1 THEN "false"
    ELSE IF homestead /\ s.n > halfN THEN "false"
    ELSE IF r.n < CurveN /\ s.n < CurveN /\ (v = 0 \/ v = 1) THEN "true"
    ELSE "false"

\* crypto.PubkeyToAddress(pub).String(): 0x and 40 hex digits in mixed
\* (checksum) case, one address per public key
HexDigits == <<48, 49, 50, 51, 52, 53, 54, 55, 56, 57, 97, 98, 99, 100, 101, 102>>

RECURSIVE HexOf(_, _)
HexOf(n, len) ==
    IF len = 0 THEN <<>>
    ELSE HexOf(n \div 16, len - 1) \o <<HexDigits[(n % 16) + 1]>>

AddressFiller ==
    <<97, 57, 55, 97, 49, 52, 54, 54, 52, 50, 98, 54, 48, 70, 98, 99, 55, 69,
      49, 98, 48, 57, 54, 52, 53, 53, 70, 54, 68, 49, 52, 52, 98, 49, 53, 102>>

PubkeyToAddress(Q) ==
    <<48, 120>> \o AddressFiller
        \o HexOf(Q, 2 * addressLength - Len(AddressFiller))

\* ----------------------------------------------------------- signature.go
\* toSignatureValues without the offset added to the recovery id
toSignatureValues_rawID(sig) ==
    [r |-> SetBytes(SubSeq(sig, 1, FieldLen)),
     s |-> SetBytes(SubSeq(sig, FieldLen + 1, 2 * FieldLen)),
     v |-> SetBytes(<<sig[RecoveryIDOffset + 1]>>)]

\* toSignatureValues
toSignatureValues(sig) ==
    [r |-> SetBytes(SubSeq(sig, 1, FieldLen)),
     s |-> SetBytes(SubSeq(sig, FieldLen + 1, 2 * FieldLen)),
     v |-> SetBytes(<<(sig[RecoveryIDOffset + 1] + jessercID) % ByteMod>>)]

\* ToSignatureBytes with the offset left in the last byte
ToSignatureBytes_keepID(v, r, s) ==
    LET rBytes == FillBytes(r, FieldLen)
        sBytes == FillBytes(s, FieldLen)
    IN  IF rBytes.panic \/ sBytes.panic \/ v.isNil
        THEN [panic |-> TRUE, sig |-> <<>>]
        ELSE [panic |-> FALSE,
              sig |-> rBytes.bytes \o sBytes.bytes \o <<Uint64(v) % ByteMod>>]

\* ToSignatureBytes: no error result; FillBytes and Uint64 may panic
ToSignatureBytes(v, r, s) ==
    LET rBytes == FillBytes(r, FieldLen)
        sBytes == FillBytes(s, FieldLen)
    IN  IF rBytes.panic \/ sBytes.panic \/ v.isNil
        THEN [panic |-> TRUE, sig |-> <<>>]
        ELSE [panic |-> FALSE,
              sig |-> rBytes.bytes \o sBytes.bytes
                        \o <<SubWord(Uint64(v), jessercID) % ByteMod>>]

\* VerifySignature
VerifySignature(v, r, s) ==
    IF v.isNil THEN Panic
    ELSE LET uintV == SubWord(Uint64(v), jessercID)
         IN  IF uintV # 0 /\ uintV # 1
             THEN "invalid signature recovery id"
             ELSE LET ok == ValidateSignatureValues(uintV % ByteMod, r, s, FALSE)
                  IN  IF ok = Panic THEN Panic
                      ELSE IF ok = "false" THEN "invalid signature values"
                      ELSE NoError

\* ------------------------------------------------------------ json.Marshal
\* strconv decimal formatting of an unsigned integer
RECURSIVE Itoa(_)
Itoa(n) ==
    IF n < 10 THEN <<48 + n>> ELSE Itoa(n \div 10) \o <<48 + (n % 10)>>

B64 ==
    <<65, 66, 67, 68, 69, 70, 71, 72, 73, 74, 75, 76, 77, 78, 79, 80, 81, 82,
      83, 84, 85, 86, 87, 88, 89, 90, 97, 98, 99, 100, 101, 102, 103, 104, 105,
      106, 107, 108, 109, 110, 111, 112, 113, 114, 115, 116, 117, 118, 119,
      120, 121, 122, 48, 49, 50, 51, 52, 53, 54, 55, 56, 57, 43, 47>>

\* base64.StdEncoding, the encoding json gives a []byte
RECURSIVE Base64(_)
Base64(b) ==
    IF Len(b) = 0 THEN <<>>
    ELSE IF Len(b) = 1
    THEN <<B64[(b[1] \div 4) + 1], B64[((b[1] % 4) * 16) + 1], 61, 61>>
    ELSE IF Len(b) = 2
    THEN <<B64[(b[1] \div 4) + 1],
           B64[((b[1] % 4) * 16) + (b[2] \div 16) + 1],
           B64[((b[2] % 16) * 4) + 1], 61>>
    ELSE <<B64[(b[1] \div 4) + 1],
           B64[((b[1] % 4) * 16) + (b[2] \div 16) + 1],
           B64[((b[2] % 16) * 4) + (b[3] \div 64) + 1],
           B64[(b[3] % 64) + 1]>> \o Base64(SubSeq(b, 4, Len(b)))

\* a []byte: nil marshals to null, any other slice to a base64 string
NilBytes == [isNil |-> TRUE, bytes |-> <<>>]
Bytes(b) == [isNil |-> FALSE, bytes |-> b]

MarshalBytes(d) ==
    IF d.isNil THEN <<110, 117, 108, 108>>
    ELSE <<34>> \o Base64(d.bytes) \o <<34>>

\* json.Marshal of a Tx whose Tip field is left out of the encoding
MarshalTx_noTip(tx) ==
    <<123, 34, 99, 104, 97, 105, 110, 95, 105, 100, 34, 58>> \o Itoa(tx.ChainID)
      \o <<44, 34, 110, 111, 110, 99, 101, 34, 58>> \o Itoa(tx.Nonce)
      \o <<44, 34, 102, 114, 111, 109, 34, 58, 34>> \o tx.FromID
      \o <<34, 44, 34, 116, 111, 34, 58, 34>> \o tx.ToID
      \o <<34, 44, 34, 118, 97, 108, 117, 101, 34, 58>> \o Itoa(tx.Value)
      \o <<44, 34, 100, 97, 116, 97, 34, 58>> \o MarshalBytes(tx.Data)
      \o <<125>>

\* json.Marshal of a database.Tx: the fields in declaration order under
\* their json tags (account ids hold no character json would escape)
MarshalTx(tx) ==
    <<123, 34, 99, 104, 97, 105, 110, 95, 105, 100, 34, 58>> \o Itoa(tx.ChainID)
      \o <<44, 34, 110, 111, 110, 99, 101, 34, 58>> \o Itoa(tx.Nonce)
      \o <<44, 34, 102, 114, 111, 109, 34, 58, 34>> \o tx.FromID
      \o <<34, 44, 34, 116, 111, 34, 58, 34>> \o tx.ToID
      \o <<34, 44, 34, 118, 97, 108, 117, 101, 34, 58>> \o Itoa(tx.Value)
      \o <<44, 34, 116, 105, 112, 34, 58>> \o Itoa(tx.Tip)
      \o <<44, 34, 100, 97, 116, 97, 34, 58>> \o MarshalBytes(tx.Data)
      \o <<125>>

\* "\x19Jesserc Signed Message:\n"
StampLiteral ==
    <<25, 74, 101, 115, 115, 101, 114, 99, 32, 83, 105, 103, 110, 101, 100,
      32, 77, 101, 115, 115, 97, 103, 101, 58, 10>>

\* "\x19Ethereum Signed Message:\n", the literal of the scheme this one copies
EthereumLiteral ==
    <<25, 69, 116, 104, 101, 114, 101, 117, 109, 32, 83, 105, 103, 110, 101,
      100, 32, 77, 101, 115, 115, 97, 103, 101, 58, 10>>

\* stamp under the literal of the scheme it was copied from
stamp_ethereumLiteral(value) ==
    LET data == MarshalTx(value)
    IN  Keccak256(EthereumLiteral \o Itoa(Len(data)) \o data)

\* stamp: Keccak256 of the length-stamped prefix and the marshalled value
stamp(value) ==
    LET data == MarshalTx(value)
    IN  Keccak256(StampLiteral \o Itoa(Len(data)) \o data)

\* signature.Sign(value, privateKey): a key is the record [D |-> scalar]
Sign(value, privateKey) ==
    LET data == stamp(value)
        res == cryptoSign(data, privateKey.D)
        publicKey == privateKey.D % CurveN
        rs == SubSeq(res.sig, 1, RecoveryIDOffset)
        vrs == toSignatureValues(res.sig)
    IN  IF res.err # NoError
        THEN [v |-> NilInt, r |-> NilInt, s |-> NilInt, err |-> res.err]
        ELSE IF ~cryptoVerifySignature(publicKey, data, rs)
        THEN [v |-> NilInt, r |-> NilInt, s |-> NilInt,
              err |-> "invalid signature produced"]
        ELSE [v |-> vrs.v, r |-> vrs.r, s |-> vrs.s, err |-> NoError]

\* FromAddress
FromAddress(value, v, r, s) ==
    LET data == stamp(value)
        sig == ToSignatureBytes(v, r, s)
        rec == SigToPub(data, sig.sig)
    IN  IF sig.panic THEN [address |-> <<>>, err |-> Panic]
        ELSE IF rec.err # NoError THEN [address |-> <<>>, err |-> rec.err]
        ELSE [address |-> PubkeyToAddress(rec.pub), err |-> NoError]

\* ---------------------------------------------------------- transaction.go
ZeroTx ==
    [ChainID |-> 0, Nonce |-> 0, FromID |-> <<>>, ToID |-> <<>>,
     Value |-> 0, Tip |-> 0, Data |-> NilBytes]

ZeroSignedTx == [Tx |-> ZeroTx, V |-> NilInt, R |-> NilInt, S |-> NilInt]

\* NewTx refusing a transfer to the sender's own account
NewTx_rejectSelfTransfer(chainID, nonce, fromID, toID, value, tip, data) ==
    IF ~isAccountID(fromID)
    THEN [tx |-> ZeroTx, err |-> "invalid from account, check formatting"]
    ELSE IF ~isAccountID(toID)
    THEN [tx |-> ZeroTx, err |-> "invalid to account, check formatting"]
    ELSE IF fromID = toID
    THEN [tx |-> ZeroTx, err |-> "transaction invalid, sending money to yourself"]
    ELSE [tx |-> [ChainID |-> chainID, Nonce |-> nonce, FromID |-> fromID,
                  ToID |-> toID, Value |-> value, Tip |-> tip, Data |-> data],
          err |-> NoError]

NewTx(chainID, nonce, fromID, toID, value, tip, data) ==
    IF ~isAccountID(fromID)
    THEN [tx |-> ZeroTx, err |-> "invalid from account, check formatting"]
    ELSE IF ~isAccountID(toID)
    THEN [tx |-> ZeroTx, err |-> "invalid to account, check formatting"]
    ELSE [tx |-> [ChainID |-> chainID, Nonce |-> nonce, FromID |-> fromID,
                  ToID |-> toID, Value |-> value, Tip |-> tip, Data |-> data],
          err |-> NoError]

\* Tx.Sign
TxSign(tx, privateKey) ==
    LET sg == Sign(tx, privateKey)
    IN  IF sg.err # NoError
        THEN [signedTx |-> ZeroSignedTx, err |-> sg.err]
        ELSE [signedTx |-> [Tx |-> tx, V |-> sg.v, R |-> sg.r, S |-> sg.s],
              err |-> NoError]

ErrChainID == "invalid chain id"
ErrFromFormat == "from account is not properly formatted"
ErrToFormat == "to account is not properly formatted"
ErrSelfTransfer == "transaction invalid, sending money to yourself"
ErrRecoveryID == "invalid signature recovery id"
ErrSignatureValues == "invalid signature values"
ErrRecoveryFailed == "recovery failed"
ErrSignerMismatch == "signature address doesn't match from address"

\* Validate comparing the recovered address with the recipient
Validate_compareTo(stx, chainID) ==
    IF stx.Tx.ChainID # chainID THEN ErrChainID
    ELSE IF ~isAccountID(stx.Tx.FromID) THEN ErrFromFormat
    ELSE IF ~isAccountID(stx.Tx.ToID) THEN ErrToFormat
    ELSE IF stx.Tx.FromID = stx.Tx.ToID THEN ErrSelfTransfer
    ELSE LET verr == VerifySignature(stx.V, stx.R, stx.S)
         IN  IF verr # NoError THEN verr
             ELSE LET fa == FromAddress(stx.Tx, stx.V, stx.R, stx.S)
                  IN  IF fa.err # NoError THEN fa.err
                      ELSE IF fa.address # stx.Tx.ToID THEN ErrSignerMismatch
                      ELSE NoError

\* Validate testing for a self-transfer after the signature checks
Validate_selfTransferLast(stx, chainID) ==
    IF stx.Tx.ChainID # chainID THEN ErrChainID
    ELSE IF ~isAccountID(stx.Tx.FromID) THEN ErrFromFormat
    ELSE IF ~isAccountID(stx.Tx.ToID) THEN ErrToFormat
    ELSE LET verr == VerifySignature(stx.V, stx.R, stx.S)
         IN  IF verr # NoError THEN verr
             ELSE LET fa == FromAddress(stx.Tx, stx.V, stx.R, stx.S)
                  IN  IF fa.err # NoError THEN fa.err
                      ELSE IF fa.address # stx.Tx.FromID THEN ErrSignerMismatch
                      ELSE IF stx.Tx.FromID = stx.Tx.ToID THEN ErrSelfTransfer
                      ELSE NoError

\* SignedTx.Validate: the error it returns, NoError, or Panic
Validate(stx, chainID) ==
    IF stx.Tx.ChainID # chainID THEN ErrChainID
    ELSE IF ~isAccountID(stx.Tx.FromID) THEN ErrFromFormat
    ELSE IF ~isAccountID(stx.Tx.ToID) THEN ErrToFormat
    ELSE IF stx.Tx.FromID = stx.Tx.ToID THEN ErrSelfTransfer
    ELSE LET verr == VerifySignature(stx.V, stx.R, stx.S)
         IN  IF verr # NoError THEN verr
             ELSE LET fa == FromAddress(stx.Tx, stx.V, stx.R, stx.S)
                  IN  IF fa.err # NoError THEN fa.err
                      ELSE IF fa.address # stx.Tx.FromID THEN ErrSignerMismatch
                      ELSE NoError

\* ------------------------------------------------------------ other schemes
\* the digest another scheme takes of a value: stamp under its own literal
otherStamp(literal, value) ==
    LET data == MarshalTx(value)
    IN  Keccak256(literal \o Itoa(Len(data)) \o data)

\* the SignedTx another scheme makes of tx: Sign under its own literal and
\* its own one-byte recovery offset
otherSign(tx, privateKey, literal, offset) ==
    LET res == cryptoSign(otherStamp(literal, tx), privateKey.D)
    IN  [Tx |-> tx,
         V |-> SetBytes(<<(res.sig[RecoveryIDOffset + 1] + offset) % ByteMod>>),
         R |-> SetBytes(SubSeq(res.sig, 1, FieldLen)),
         S |-> SetBytes(SubSeq(res.sig, FieldLen + 1, 2 * FieldLen))]

\* ------------------------------------------------- app/scratch/main.go
\* json.Marshal of the scratch Tx{FromId, ToId, Value}
MarshalScratchTx(tx) ==
    <<123, 34, 102, 114, 111, 109, 34, 58, 34>> \o tx.FromId
        \o <<34, 44, 34, 84, 111, 34, 58, 34>> \o tx.ToId
        \o <<34, 44, 34, 118, 97, 108, 117, 101, 34, 58>> \o Itoa(tx.Value)
        \o <<125>>

\* strconv.Atoi of a string of decimal digits
RECURSIVE Atoi(_)
Atoi(a) ==
    IF Len(a) = 0 THEN 0
    ELSE 10 * Atoi(SubSeq(a, 1, Len(a) - 1)) + (a[Len(a)] - 48)

\* the decimal length a stamp carries after the literal
StampedLength(st) == Atoi(SubSeq(st, Len(StampLiteral) + 1, Len(st)))

ZeroScratchTx == [FromId |-> <<>>, ToId |-> <<>>, Value |-> 0]

\* one digest computation: the stamp and the payload handed to Keccak256,
\* and the serialization each was taken from
NoDigest ==
    [stamp |-> <<>>, lengthOf |-> "", payload |-> <<>>, payloadOf |-> "",
     hash |-> 0, pk |-> <<>>]

NoRun ==
    [tx |-> ZeroScratchTx, tx2 |-> ZeroScratchTx, first |-> NoDigest,
     second |-> NoDigest, err |-> NoError]

\* one signing leg of run: stamp from length n, Keccak256(stamp, payload),
\* crypto.Sign, crypto.SigToPub, crypto.PubkeyToAddress
runLeg(n, lengthOf, payload, payloadOf, privateKey) ==
    LET st == StampLiteral \o Itoa(n)
        hashOfData == Keccak256(st \o payload)
        sg == cryptoSign(hashOfData, privateKey.D)
        rec == SigToPub(hashOfData, sg.sig)
    IN  [digest |-> [stamp |-> st, lengthOf |-> lengthOf, payload |-> payload,
                     payloadOf |-> payloadOf, hash |-> hashOfData,
                     pk |-> IF sg.err = NoError /\ rec.err = NoError
                            THEN PubkeyToAddress(rec.pub) ELSE <<>>],
         err |-> IF sg.err # NoError THEN "unable to sign tx"
                 ELSE IF rec.err # NoError THEN "unable to generate public key"
                 ELSE NoError]

\* run: the first Tx is stamped with len(data); the second Tx is marshalled
\* to data2 and stamped with len(data) again
run(tx, tx2, privateKey) ==
    LET data == MarshalScratchTx(tx)
        leg1 == runLeg(Len(data), "data", data, "data", privateKey)
        data2 == MarshalScratchTx(tx2)
        leg2 == runLeg(Len(data), "data", data2, "data2", privateKey)
    IN  IF privateKey.D < 1 \/ privateKey.D >= CurveN
        THEN [tx |-> tx, tx2 |-> tx2, first |-> NoDigest, second |-> NoDigest,
              err |-> "unable to generate private key"]
        ELSE IF leg1.err # NoError
        THEN [tx |-> tx, tx2 |-> tx2, first |-> leg1.digest,
              second |-> NoDigest, err |-> leg1.err]
        ELSE [tx |-> tx, tx2 |-> tx2, first |-> leg1.digest,
              second |-> leg2.digest, err |-> leg2.err]

\* ---------------------------------------------------------------- state
\* pc:      the step the caller has reached
\* acct:    argument and results of the last ToAccountID call
\* built:   arguments and results of the last NewTx call
\* key:     the private key handed to Tx.Sign
\* signed:  results of the last Tx.Sign call
\* stx:     the SignedTx the caller holds (its fields are public)
\* changed: the field of stx the caller has overwritten since Sign
\* chainArg, result: argument and outcome of the last Validate call
\* verify:  arguments and outcome of the last direct VerifySignature call
\* codec:   arguments and results of the last codec calls
\* ran:     the values and digest computations of the last run of main
VARIABLES pc, acct, built, key, signed, stx, changed, chainArg, result,
          verify, codec, ran

vars == <<pc, acct, built, key, signed, stx, changed, chainArg, result,
          verify, codec, ran>>

\* ---- inputs
Prefixes == {<<>>, <<48, 120>>, <<48, 88>>, <<48, 121>>, <<120>>}
FillChars == {97, 70, 55, 103, 71, 32}
BodyLens == {2 * addressLength - 2, 2 * addressLength - 1, 2 * addressLength,
             2 * addressLength + 1, 2 * addressLength + 2}
HexInputs == {p \o Rep(c, n) : p \in Prefixes, c \in FillChars, n \in BodyLens}

ToLower(a) ==
    [i \in 1..Len(a) |-> IF 65 <= a[i] /\ a[i] <= 90 THEN a[i] + 32 ELSE a[i]]

\* private keys: 0 is not a valid key
Keys == {[D |-> 0], [D |-> 1], [D |-> 2]}
Addr1 == PubkeyToAddress(1)
Addr2 == PubkeyToAddress(2)
\* "0xcc"
ShortID == <<48, 120, 99, 99>>

ChainIDs == {1, 2}
Nonces == 0..MaxNonce
Values == {80000, 90000}
Tips == 0..MaxTip
Hello == <<104, 101, 108, 108, 111>>
Payloads == {NilBytes, Bytes(Hello)}
FromIDs == {Addr1, ToLower(Addr1), ShortID}
\* the 40 hexadecimal characters of an address, without 0x
BareID == SubSeq(Addr2, 3, Len(Addr2))
ToIDs == {Addr1, Addr2, BareID, ShortID}

\* the scratch Tx values of main: the literals its revisions give FromId,
\* ToId ("0xcc", "0xff") and Value
ScratchFrom == <<48, 120>> \o AddressFiller \o <<100, 55, 53, 100>>
ScratchToIds == {ShortID, <<48, 120, 102, 102>>}
ScratchValues == {80000, 90000, 250000}
ScratchTxs ==
    {[FromId |-> ScratchFrom, ToId |-> t, Value |-> v] :
        t \in ScratchToIds, v \in ScratchValues}

\* recovery values a caller may pass: around the offset, negative, and
\* beyond one byte and one machine word
VSamples ==
    {Big(x) : x \in {0, 1, jessercID - 2, jessercID - 1, jessercID,
                     jessercID + 1, jessercID + 2, 0 - jessercID,
                     0 - (jessercID + 1), jessercID + ByteMod,
                     jessercID + WordMod, jessercID + 1 + WordMod}}
\* signature components a caller may pass: around 0, N/2, N and the field
RSSamples ==
    {Big(x) : x \in {0 - 1, 0, 1, halfN, halfN + 1, CurveN - 1, CurveN,
                     PowByte(FieldLen) - 1, PowByte(FieldLen)}} \cup {NilInt}
\* raw signatures: every field built of these byte values
ByteSamples == {0, 1, 127, 255}
RECURSIVE FieldSamples(_)
FieldSamples(len) ==
    IF len = 0 THEN {<<>>}
    ELSE {<<b>> \o f : b \in ByteSamples, f \in FieldSamples(len - 1)}
RawSigs ==
    {rb \o sb \o <<id>> : rb \in FieldSamples(FieldLen),
                          sb \in FieldSamples(FieldLen), id \in {0, 1}}

NoVerify == [v |-> NilInt, r |-> NilInt, s |-> NilInt, err |-> NoError]
NoCodec == [raw |-> <<>>, v |-> NilInt, r |-> NilInt, s |-> NilInt,
            panic |-> FALSE, sig |-> <<>>]

Init ==
    /\ pc = "start"
    /\ acct = [hex |-> <<>>, id |-> <<>>, err |-> NoError]
    /\ built = [args |-> ZeroTx, tx |-> ZeroTx, err |-> NoError]
    /\ key = [D |-> 0]
    /\ signed = [signedTx |-> ZeroSignedTx, err |-> NoError]
    /\ stx = ZeroSignedTx
    /\ changed = "none"
    /\ chainArg = 0
    /\ result = NoError
    /\ verify = NoVerify
    /\ codec = NoCodec
    /\ ran = NoRun

\* ---- actions
DoToAccountID ==
    /\ pc = "start"
    /\ \E hex \in HexInputs \cup FromIDs \cup ToIDs :
         LET res == ToAccountID(hex)
         IN  acct' = [hex |-> hex, id |-> res.id, err |-> res.err]
    /\ pc' = "account"
    /\ UNCHANGED <<built, key, signed, stx, changed, chainArg, result, verify,
                   codec, ran>>

DoNewTx ==
    /\ pc = "start"
    /\ \E chainID \in ChainIDs, nonce \in Nonces, fromID \in FromIDs,
          toID \in ToIDs, value \in Values, tip \in Tips, data \in Payloads :
         LET res == NewTx(chainID, nonce, fromID, toID, value, tip, data)
         IN  built' = [args |-> [ChainID |-> chainID, Nonce |-> nonce,
                                 FromID |-> fromID, ToID |-> toID,
                                 Value |-> value, Tip |-> tip, Data |-> data],
                       tx |-> res.tx, err |-> res.err]
    /\ pc' = "built"
    /\ UNCHANGED <<acct, key, signed, stx, changed, chainArg, result, verify,
                   codec, ran>>

DoSign ==
    /\ pc = "built"
    /\ built.err = NoError
    /\ \E k \in Keys :
         /\ key' = k
         /\ signed' = TxSign(built.tx, k)
    /\ stx' = signed'.signedTx
    /\ pc' = "signed"
    /\ UNCHANGED <<acct, built, changed, chainArg, result, verify, codec, ran>>

\* the caller overwrites one field of the record it holds
DoTamper ==
    /\ pc = "signed"
    /\ signed.err = NoError
    /\ \/ \E n \in Nonces \ {stx.Tx.Nonce} :
            stx' = [stx EXCEPT !.Tx.Nonce = n] /\ changed' = "nonce"
       \/ \E x \in Values \ {stx.Tx.Value} :
            stx' = [stx EXCEPT !.Tx.Value = x] /\ changed' = "value"
       \/ \E t \in Tips \ {stx.Tx.Tip} :
            stx' = [stx EXCEPT !.Tx.Tip = t] /\ changed' = "tip"
       \/ \E a \in ToIDs \ {stx.Tx.ToID} :
            stx' = [stx EXCEPT !.Tx.ToID = a] /\ changed' = "to"
       \/ \E d \in (Payloads \cup {Bytes(<<>>)}) \ {stx.Tx.Data} :
            stx' = [stx EXCEPT !.Tx.Data = d] /\ changed' = "data"
    /\ pc' = "altered"
    /\ UNCHANGED <<acct, built, key, signed, chainArg, result, verify, codec,
                   ran>>

\* the caller overwrites a signature value of the record it holds
DoForge ==
    /\ pc = "signed"
    /\ signed.err = NoError
    /\ \/ \E x \in (VSamples \cup {NilInt}) \ {stx.V} :
            stx' = [stx EXCEPT !.V = x] /\ changed' = "V"
       \/ \E x \in RSSamples \ {stx.R} :
            stx' = [stx EXCEPT !.R = x] /\ changed' = "R"
       \/ \E x \in RSSamples \ {stx.S} :
            stx' = [stx EXCEPT !.S = x] /\ changed' = "S"
       \/ /\ stx' = [stx EXCEPT !.S = Big(CurveN - stx.S.n),
                                 !.V = Big(2 * jessercID + 1 - stx.V.n)]
          /\ changed' = "malleated"
    /\ pc' = "altered"
    /\ UNCHANGED <<acct, built, key, signed, chainArg, result, verify, codec,
                   ran>>

\* the caller holds a record signed under another scheme: another literal,
\* another recovery offset (27 is Ethereum's), or both
OtherSchemes ==
    {<<EthereumLiteral, jessercID, "literal">>,
     <<EthereumLiteral, jessercID - 2, "literal+offset">>,
     <<StampLiteral, jessercID - 2, "offset">>,
     <<StampLiteral, jessercID - 1, "offset">>,
     <<StampLiteral, jessercID + 1, "offset">>}

DoOtherSign ==
    /\ pc = "built"
    /\ built.err = NoError
    /\ \E k \in Keys, sch \in OtherSchemes :
         /\ k.D >= 1
         /\ key' = k
         /\ stx' = otherSign(built.tx, k, sch[1], sch[2])
         /\ changed' = sch[3]
    /\ pc' = "foreign"
    /\ UNCHANGED <<acct, built, signed, chainArg, result, verify, codec, ran>>

\* Validate on the record held: the zero SignedTx before any Sign
DoValidate ==
    /\ pc \in {"start", "signed", "altered", "foreign"}
    /\ \E chainID \in ChainIDs :
         /\ chainArg' = chainID
         /\ result' = Validate(stx, chainID)
    /\ pc' = "validated"
    /\ UNCHANGED <<acct, built, key, signed, stx, changed, verify, codec, ran>>

DoVerifySignature ==
    /\ pc = "start"
    /\ \E v \in VSamples, r \in RSSamples, s \in RSSamples :
         verify' = [v |-> v, r |-> r, s |-> s, err |-> VerifySignature(v, r, s)]
    /\ pc' = "verified"
    /\ UNCHANGED <<acct, built, key, signed, stx, changed, chainArg, result,
                   codec, ran>>

DoToSignatureValues ==
    /\ pc = "start"
    /\ \E raw \in RawSigs :
         LET vrs == toSignatureValues(raw)
         IN  codec' = [codec EXCEPT !.raw = raw, !.v = vrs.v, !.r = vrs.r,
                                    !.s = vrs.s]
    /\ pc' = "values"
    /\ UNCHANGED <<acct, built, key, signed, stx, changed, chainArg, result,
                   verify, ran>>

\* ToSignatureBytes on the values just encoded, or on values of the caller
DoToSignatureBytes ==
    /\ \/ /\ pc = "values"
          /\ LET out == ToSignatureBytes(codec.v, codec.r, codec.s)
             IN  codec' = [codec EXCEPT !.panic = out.panic, !.sig = out.sig]
       \/ /\ pc = "start"
          /\ \E v \in VSamples \cup {NilInt}, r \in RSSamples, s \in RSSamples :
               LET out == ToSignatureBytes(v, r, s)
               IN  codec' = [raw |-> <<>>, v |-> v, r |-> r, s |-> s,
                             panic |-> out.panic, sig |-> out.sig]
    /\ pc' = "bytes"
    /\ UNCHANGED <<acct, built, key, signed, stx, changed, chainArg, result,
                   verify, ran>>

\* main: run with the key file's key and its two Tx values
DoRun ==
    /\ pc = "start"
    /\ \E tx \in ScratchTxs, tx2 \in ScratchTxs, k \in Keys :
         ran' = run(tx, tx2, k)
    /\ pc' = "ran"
    /\ UNCHANGED <<acct, built, key, signed, stx, changed, chainArg, result,
                   verify, codec>>

Next ==
    \/ DoToAccountID
    \/ DoNewTx
    \/ DoSign
    \/ DoTamper
    \/ DoForge
    \/ DoOtherSign
    \/ DoValidate
    \/ DoVerifySignature
    \/ DoToSignatureValues
    \/ DoToSignatureBytes
    \/ DoRun

Spec == Init /\ [][Next]_vars
\* ---------------------------------------------------------------- claims
\* the untouched result of Sign on a record of distinct well-formed account
\* ids, signed with a usable key and validated against its own chain id
SignedThenValidated ==
    /\ pc = "validated"
    /\ changed = "none"
    /\ built.err = NoError
    /\ key.D >= 1 /\ key.D < CurveN
    /\ built.tx.FromID # built.tx.ToID
    /\ chainArg = built.tx.ChainID

\* C1 as claimed: whatever the private key, Sign succeeds and Validate of the
\* result against the record's chain id returns no error.
C1_AnyKeyValidates ==
    SignedThenValidated => signed.err = NoError /\ result = NoError

\* C1, amended: when FromID is exactly the address string of the signing
\* key, Sign succeeds and Validate against the record's chain id returns no
\* error.
C1_SignerKeyValidates ==
    (SignedThenValidated /\ built.tx.FromID = PubkeyToAddress(key.D))
        => signed.err = NoError /\ result = NoError

C1_Witness ==
    /\ SignedThenValidated
    /\ built.tx.FromID = PubkeyToAddress(key.D)
    /\ stx = signed.signedTx
    /\ result = NoError

\* an account id as the data model words it: an optional 0x or 0X, then
\* exactly 40 characters of 0-9, a-f, A-F
HexChars == (48..57) \cup (97..102) \cup (65..70)
WellFormedID(a) ==
    \E p \in {<<>>, <<48, 120>>, <<48, 88>>} :
        /\ Len(a) = Len(p) + 40
        /\ SubSeq(a, 1, Len(p)) = p
        /\ \A i \in (Len(p) + 1)..Len(a) : a[i] \in HexChars

\* the outcome of the signature checks of a record, steps 4 and 5
Check4(t) == VerifySignature(t.V, t.R, t.S)
Check5(t) ==
    LET fa == FromAddress(t.Tx, t.V, t.R, t.S)
    IN  IF fa.err # NoError THEN fa.err
        ELSE IF fa.address # t.Tx.FromID THEN ErrSignerMismatch
        ELSE NoError

Tampered ==
    /\ pc = "validated"
    /\ changed \in {"nonce", "value", "tip", "to", "data"}
    /\ chainArg = stx.Tx.ChainID
    /\ Validate(signed.signedTx, chainArg) = NoError

\* C3 as claimed: every such change makes Validate fail with the
\* signer-mismatch error.
C3_TamperIsSignerMismatch ==
    Tampered => result = ErrSignerMismatch

\* C3, amended: every such change makes Validate fail; the error is the
\* self-transfer error when the recipient was changed to the sender, the
\* format error when it was changed to a malformed id, and otherwise the
\* error of the signer check (signer mismatch, or the recovery error).
C3_TamperIsRejected ==
    Tampered =>
        /\ result # NoError
        /\ result =
             IF stx.Tx.ToID = stx.Tx.FromID THEN ErrSelfTransfer
             ELSE IF ~WellFormedID(stx.Tx.ToID) THEN ErrToFormat
             ELSE IF result = ErrRecoveryFailed THEN ErrRecoveryFailed
             ELSE ErrSignerMismatch

C3_Witness ==
    /\ Tampered
    /\ changed = "data"
    /\ result = ErrSignerMismatch

\* C4: a recovery value other than 29 and 30 makes VerifySignature return
\* an error whatever r and s are, and Validate never succeeds with it.
C4_OnlyOffsetValuesPass ==
    /\ (pc = "verified" /\ verify.v.n \notin {jessercID, jessercID + 1})
           => verify.err # NoError
    /\ (pc = "validated" /\ ~stx.V.isNil
            /\ stx.V.n \notin {jessercID, jessercID + 1})
           => result # NoError

\* C5: VerifySignature returns an error when r or s is below 1, not below
\* the group order, or s is above half the order; so the counterpart of a
\* valid signature with s negated and the recovery bit flipped is rejected.
C5_LowSEnforced ==
    /\ (pc = "verified" /\ ~verify.r.isNil /\ ~verify.s.isNil
            /\ verify.v.n \in {jessercID, jessercID + 1}
            /\ (\/ verify.r.n < 1 \/ verify.s.n < 1
                \/ verify.r.n >= CurveN \/ verify.s.n >= CurveN
                \/ verify.s.n > halfN))
           => verify.err # NoError
    /\ (pc = "validated" /\ changed = "malleated") => result # NoError

\* C6: Validate always returns, nil or an error: it never panics.
C6_ValidateNeverPanics ==
    pc = "validated" => result # Panic

\* C7: a SignedTx that Tx.Sign returns without error has V equal to 29 or
\* 30 and embeds the signed Tx unchanged; on error Sign returns the zero
\* SignedTx.
C7_SignedVHasOffset ==
    pc \in {"signed", "altered"} =>
        IF signed.err = NoError
        THEN /\ ~signed.signedTx.V.isNil
             /\ signed.signedTx.V.n \in {jessercID, jessercID + 1}
             /\ signed.signedTx.Tx = built.tx
        ELSE signed.signedTx = ZeroSignedTx

C7_Witness ==
    /\ pc = "signed"
    /\ signed.err = NoError
    /\ signed.signedTx.V.n = jessercID + 1
    /\ signed.signedTx.Tx = built.tx

\* C8: for a raw signature whose last byte is 0 or 1, ToSignatureBytes of
\* its toSignatureValues is the same bytes.
C8_CodecRoundTrip ==
    (pc = "bytes" /\ codec.raw # <<>>) =>
        ~codec.panic /\ codec.sig = codec.raw

\* a raw signature whose fields lead with zero bytes came back whole
C8_Witness ==
    /\ pc = "bytes"
    /\ Len(codec.raw) = SignatureLength
    /\ codec.raw[1] = 0
    /\ codec.raw[FieldLen + 1] = 0
    /\ codec.raw[SignatureLength] = 1
    /\ codec.sig = codec.raw

\* C9: when v - 29 is not 0 or 1, or r or s does not fit its field,
\* ToSignatureBytes returns no signature bytes and reports an error (it
\* neither returns bytes nor panics).
C9_DecoderRejects ==
    (pc = "bytes" /\ codec.raw = <<>>
        /\ ~codec.v.isNil /\ ~codec.r.isNil /\ ~codec.s.isNil
        /\ (\/ codec.v.n \notin {jessercID, jessercID + 1}
            \/ Abs(codec.r.n) >= PowByte(FieldLen)
            \/ Abs(codec.s.n) >= PowByte(FieldLen)))
        => ~codec.panic /\ Len(codec.sig) # SignatureLength

\* C10 as claimed: an accepted string starts with 0x or 0X followed by
\* exactly 40 hexadecimal characters, and so do the ids of a built Tx.
Prefixed40Hex(a) ==
    /\ Len(a) = 42
    /\ a[1] = 48 /\ a[2] \in {120, 88}
    /\ \A i \in 3..42 : a[i] \in HexChars

C10_AcceptedHasPrefix ==
    /\ (pc = "account" /\ acct.err = NoError) => Prefixed40Hex(acct.id)
    /\ (pc = "built" /\ built.err = NoError)
           => Prefixed40Hex(built.tx.FromID) /\ Prefixed40Hex(built.tx.ToID)

\* C10, amended: a string is accepted exactly when, after an optional 0x or
\* 0X, it is exactly 40 hexadecimal characters; the accepted id is the
\* string itself, and the ids of a built Tx have that form.
C10_AcceptedIffWellFormed ==
    /\ pc = "account" =>
           /\ (acct.err = NoError) <=> WellFormedID(acct.hex)
           /\ acct.err = NoError => acct.id = acct.hex
    /\ (pc = "built" /\ built.err = NoError)
           => WellFormedID(built.tx.FromID) /\ WellFormedID(built.tx.ToID)

\* a string of 40 hexadecimal characters without prefix was accepted
C10_Witness ==
    /\ pc = "account"
    /\ acct.err = NoError
    /\ Len(acct.id) = 40
    /\ ~Prefixed40Hex(acct.id)

\* a record of distinct well-formed account ids, signed by the sender's key
\* under another scheme and validated against its own chain id
CrossScheme ==
    /\ pc = "validated"
    /\ changed \in {"literal", "offset", "literal+offset"}
    /\ built.tx.FromID = PubkeyToAddress(key.D)
    /\ built.tx.FromID # built.tx.ToID
    /\ WellFormedID(built.tx.ToID)
    /\ chainArg = built.tx.ChainID

\* C11 as claimed: a signature made under another literal or another
\* recovery offset fails Validate with the signer-mismatch error.
C11_CrossSchemeIsSignerMismatch ==
    CrossScheme => result = ErrSignerMismatch

\* C11, amended: such a signature fails Validate; with the recovery-id error
\* of check 4 when its v is not 29 or 30 (as under offset 27), otherwise
\* with the error of the signer check (signer mismatch, or the recovery
\* error).
C11_CrossSchemeIsRejected ==
    CrossScheme =>
        /\ result # NoError
        /\ result =
             IF stx.V.n \notin {jessercID, jessercID + 1} THEN ErrRecoveryID
             ELSE IF result = ErrRecoveryFailed THEN ErrRecoveryFailed
             ELSE ErrSignerMismatch

\* a signature under the other literal with this scheme's offset reached
\* the signer check and failed it
C11_Witness ==
    /\ CrossScheme
    /\ changed = "literal"
    /\ stx.V.n \in {jessercID, jessercID + 1}
    /\ Check4(stx) = NoError
    /\ result = ErrSignerMismatch

\* the outcome NewTx must have on the arguments it was last called with
NewTxOutcome ==
    IF ~WellFormedID(built.args.FromID)
    THEN /\ built.err = "invalid from account, check formatting"
         /\ built.tx = ZeroTx
    ELSE IF ~WellFormedID(built.args.ToID)
    THEN /\ built.err = "invalid to account, check formatting"
         /\ built.tx = ZeroTx
    ELSE /\ built.err = NoError
         /\ built.tx.ChainID = built.args.ChainID
         /\ built.tx.Nonce = built.args.Nonce
         /\ built.tx.FromID = built.args.FromID
         /\ built.tx.ToID = built.args.ToID
         /\ built.tx.Value = built.args.Value
         /\ built.tx.Tip = built.args.Tip
         /\ built.tx.Data = built.args.Data

\* a Tx from an account to itself, signed with a valid key and left as signed
SelfTransferSigned ==
    /\ pc \in {"signed", "validated"}
    /\ changed = "none"
    /\ WellFormedID(built.args.FromID)
    /\ built.args.FromID = built.args.ToID
    /\ key.D # 0

\* C12: NewTx returns an error and the zero Tx exactly when fromID or toID is
\* not a well-formed account id, testing fromID first; otherwise it returns a
\* Tx whose seven fields are its arguments. It accepts fromID = toID: such a
\* Tx is built and signed without error, and Validate called with its chain
\* id is what rejects it, with the self-transfer error.
C12_NewTxChecksOnlyFormat ==
    /\ (built.args # ZeroTx) => NewTxOutcome
    /\ SelfTransferSigned =>
          /\ built.err = NoError
          /\ signed.err = NoError
          /\ stx.Tx = built.tx
          /\ stx.Tx.FromID = stx.Tx.ToID
          /\ (pc = "validated" /\ chainArg = built.tx.ChainID)
                 => result = ErrSelfTransfer

\* a self-transfer was built, signed and then refused by Validate
C12_Witness ==
    /\ SelfTransferSigned
    /\ pc = "validated"
    /\ chainArg = built.tx.ChainID
    /\ built.err = NoError
    /\ signed.err = NoError
    /\ result = ErrSelfTransfer

\* the digest computations a run of main went through
RunDigests == {d \in {ran.first, ran.second} : d # NoDigest}

\* C13 as claimed: in every digest computation the decimal length written
\* after the literal is the byte length of the payload hashed with it, and
\* it is taken from that payload's serialization, not from an earlier one.
C13_LengthOfHashedPayload ==
    pc = "ran" =>
        \A d \in RunDigests :
            /\ StampedLength(d.stamp) = Len(d.payload)
            /\ d.lengthOf = d.payloadOf

=============================================================================
